---- MODULE Spec2Model ----
(***************************************************************************)
(* UmbraArcString (src/arc.rs): a 16-byte string value holding a u32      *)
(* length, a 4-byte prefix and an 8-byte union that is either the inline  *)
(* tail of the string or a pointer to the bytes of an Arc<str>.           *)
(*                                                                         *)
(* A str is modelled as [bytes, blocks]: the byte sequence `bytes`        *)
(* followed by `blocks` further runs of 2^32 bytes 'a'.  Its usize length *)
(* is blocks * 2^32 + Len(bytes), kept as the pair [hi, lo] because the   *)
(* model checker's integers are narrower than usize; `as u32` keeps lo.   *)
(***************************************************************************)
EXTENDS Integers, Sequences, FiniteSets

VARIABLES args, inst, content, heap, pc, stderr, panicked, res

vars == <<args, inst, content, heap, pc, stderr, panicked, res>>

---------------------------------------------------------------------------
(* Bounds of the model *)

\* longest run of 'a' bytes in the middle of an input string
MaxFill == 12
\* instance slots (each slot holds at most one instance over a run)
MaxInst == 3
\* threads that clone and drop concurrently
MaxThreads == 2
\* heap buffers allocated over a run
MaxBufs == 2
\* runs of 2^32 bytes an input string may carry
MaxBlocks == 1

---------------------------------------------------------------------------
(* Program constants and primitive types *)

MAX_INLINE == 12

Slots == 1..MaxInst
Threads == 1..MaxThreads
MainThread == CHOOSE t \in Threads : \A u \in Threads : t <= u

Zeros(n) == [i \in 1..n |-> 0]
Take(s, n) == SubSeq(s, 1, IF n < Len(s) THEN n ELSE Len(s))
Skip(s, n) == SubSeq(s, n + 1, Len(s))

Str(bytes, blocks) == [bytes |-> bytes, blocks |-> blocks]

\* n bytes 'a'
Fill(n) == [i \in 1..n |-> 97]
\* the first n bytes of a str (n small): as_bytes()[0..n], or n bytes at its address
StrHead(val, n) ==
    Take(val.bytes \o (IF val.blocks > 0 THEN Fill(n) ELSE <<>>), n)

\* str::len(): a usize, as hi * 2^32 + lo
StrLen(val) == [hi |-> val.blocks, lo |-> Len(val.bytes)]
\* `len as u32`: the low 32 bits
AsU32(n) == n.lo
\* `len <= MAX_INLINE` on a usize
UsizeLeMaxInline(n) == n.hi = 0 /\ n.lo <= MAX_INLINE

\* String::from_utf8: whether a byte sequence is well-formed UTF-8
RECURSIVE IsUtf8(_)
IsUtf8(s) ==
    IF s = <<>> THEN TRUE
    ELSE LET b == s[1]
             n == Len(s)
             Cont(i) == i <= n /\ s[i] \in 128..191
         IN  CASE b < 128 -> IsUtf8(Skip(s, 1))
               [] b \in 194..223 -> Cont(2) /\ IsUtf8(Skip(s, 2))
               [] b = 224 -> n >= 2 /\ s[2] \in 160..191 /\ Cont(3) /\ IsUtf8(Skip(s, 3))
               [] b \in (225..236) \cup {238, 239} ->
                      Cont(2) /\ Cont(3) /\ IsUtf8(Skip(s, 3))
               [] b = 237 -> n >= 2 /\ s[2] \in 128..159 /\ Cont(3) /\ IsUtf8(Skip(s, 3))
               [] b = 240 -> n >= 2 /\ s[2] \in 144..191 /\ Cont(3) /\ Cont(4)
                             /\ IsUtf8(Skip(s, 4))
               [] b \in 241..243 -> Cont(2) /\ Cont(3) /\ Cont(4) /\ IsUtf8(Skip(s, 4))
               [] b = 244 -> n >= 2 /\ s[2] \in 128..143 /\ Cont(3) /\ Cont(4)
                             /\ IsUtf8(Skip(s, 4))
               [] OTHER -> FALSE

\* Ord for byte slices, byte arrays and u32: "Less", "Equal" or "Greater"
NumCmp(x, y) == IF x < y THEN "Less" ELSE IF x > y THEN "Greater" ELSE "Equal"

RECURSIVE SliceCmp(_, _)
SliceCmp(x, y) ==
    IF x = <<>> /\ y = <<>> THEN "Equal"
    ELSE IF x = <<>> THEN "Less"
    ELSE IF y = <<>> THEN "Greater"
    ELSE IF x[1] # y[1] THEN NumCmp(x[1], y[1])
    ELSE SliceCmp(Tail(x), Tail(y))

\* Ordering::then_with
ThenWith(o, next) == IF o = "Equal" THEN next ELSE o

---------------------------------------------------------------------------
(* The record: struct UmbraArcString and union UmbraArcExtra *)

NullPtr == 0

\* union UmbraArcExtra; `written` remembers which field the value was built with
ExtraData(d) == [written |-> "data", data |-> d, ptr |-> NullPtr]
ExtraPtr(p) == [written |-> "ptr", data |-> <<>>, ptr |-> p]

\* the 8 bytes of an address (addresses are buffer numbers), little-endian
AddrBytes(p) == <<p>> \o Zeros(7)

\* reading field `data` of the union: the 8 bytes of the payload slot
DataOf(extra) == IF extra.written = "data" THEN extra.data ELSE AddrBytes(extra.ptr)
\* reading field `ptr` of the union
PtrOf(extra) == extra.ptr

NoInst == [state |-> "unborn", len |-> 0, prefix |-> <<>>, extra |-> ExtraData(<<>>)]
Instance(len, prefix, extra) ==
    [state |-> "live", len |-> len, prefix |-> prefix, extra |-> extra]

NoStr == Str(<<>>, 0)

is_inline(self) == self.len <= MAX_INLINE

len(self) == self.len

---------------------------------------------------------------------------
(* The heap: ArcInner<str> allocations, addressed by their number *)

RoundUp8(n) == ((n + 7) \div 8) * 8
\* size of ArcInner<T>: two usize counters, then the data, aligned to 8
ArcInnerSize(dataLen) == [hi |-> dataLen.hi, lo |-> RoundUp8(16 + dataLen.lo)]
\* Layout of the allocation behind an Arc<str> of `n` bytes, and behind an Arc<u8>
LayoutOfStr(n) == [ty |-> "str", size |-> ArcInnerSize(n)]
LayoutOfU8 == [ty |-> "u8", size |-> ArcInnerSize([hi |-> 0, lo |-> 1])]
NoLayout == [ty |-> "none", size |-> [hi |-> 0, lo |-> 0]]

\* Arc::<str>::from(val): a fresh allocation holding a copy of val, strong = 1
ArcFrom(val) ==
    [data |-> val, strong |-> 1, allocAs |-> LayoutOfStr(StrLen(val)),
     state |-> "live", frees |-> 0, freedAs |-> NoLayout]

\* UmbraArcExtra::inner_ptr_new: heap after the allocation, and the payload
inner_ptr_new_heap(h, val) == Append(h, ArcFrom(val))
inner_ptr_new(h, val) == ExtraPtr(Len(h) + 1)

\* inner_ptr_to_arc(len): the str the rebuilt Arc<str> views, `len` bytes at ptr
inner_ptr_to_arc(h, extra, n) == StrHead(h[PtrOf(extra)].data, n)

---------------------------------------------------------------------------
(* UmbraArcString::new *)

\* lines 35-36: the zeroed 12-byte scratch buffer with the content copied in
InlineScratch(val) == val.bytes \o Zeros(MAX_INLINE - Len(val.bytes))
\* line 38: the transmute splitting the scratch buffer into 4 + 8 bytes
SplitPrefix(inline) == SubSeq(inline, 1, 4)
\* a split one byte early
SplitExtraOneEarly(inline) == SubSeq(inline, 4, 11)
SplitExtra(inline) == SubSeq(inline, 5, 12)

\* line 40: String::from_utf8(extra.to_vec()).unwrap() panics on malformed bytes
NewPanics(val) ==
    UsizeLeMaxInline(StrLen(val)) /\ ~IsUtf8(SplitExtra(InlineScratch(val)))

\* lines 34 and 40: the lines `new` writes to stderr
NewStderrLines(val) ==
    IF ~UsizeLeMaxInline(StrLen(val)) THEN 0
    ELSE IF NewPanics(val) THEN 1 ELSE 2

\* the value `new` returns
NewValue(h, val) ==
    LET n == StrLen(val) IN
    IF UsizeLeMaxInline(n)
    THEN Instance(AsU32(n), SplitPrefix(InlineScratch(val)),
                  ExtraData(SplitExtra(InlineScratch(val))))
    ELSE Instance(AsU32(n), StrHead(val, 4), inner_ptr_new(h, val))

\* the heap after `new`
NewHeap(h, val) ==
    IF UsizeLeMaxInline(StrLen(val)) THEN h ELSE inner_ptr_new_heap(h, val)

---------------------------------------------------------------------------
(* Read access, hashing, equality and ordering *)

\* Deref::deref: the bytes of the str view
deref(h, self) ==
    IF is_inline(self)
    THEN Take(self.prefix \o DataOf(self.extra), self.len)
    ELSE inner_ptr_to_arc(h, self.extra, self.len)

suffix_bytes(h, self) ==
    IF is_inline(self)
    THEN DataOf(self.extra)
    ELSE Skip(inner_ptr_to_arc(h, self.extra, self.len), 4)

\* Hash::hash: what the hasher is fed (str's Hash writes the bytes, then 0xff)
hash(h, self) == deref(h, self) \o <<255>>

\* the first 8 bytes of the record read as one u64: len, then prefix
LenPrefixWord(self) == <<self.len, self.prefix>>

\* PartialEq<UmbraArcString>::eq
eq(h, self, other) ==
    IF LenPrefixWord(self) # LenPrefixWord(other) THEN FALSE
    ELSE IF is_inline(self) /\ is_inline(other)
         THEN DataOf(self.extra) = DataOf(other.extra)
         ELSE suffix_bytes(h, self) = suffix_bytes(h, self)

\* PartialEq<&str>::eq
eq_str(h, self, other) == deref(h, self) = other

\* Ord::cmp
cmp(h, self, other) ==
    LET p == SliceCmp(self.prefix, other.prefix) IN
    IF p # "Equal" THEN p
    ELSE IF self.len <= 4 /\ other.len <= 4 THEN "Equal"
    ELSE IF is_inline(self) /\ is_inline(other)
         THEN ThenWith(SliceCmp(DataOf(self.extra), DataOf(other.extra)),
                       NumCmp(self.len, other.len))
         ELSE SliceCmp(suffix_bytes(h, self), suffix_bytes(h, other))

---------------------------------------------------------------------------
(* Inputs *)

\* the empty string, "\0", "b" and "é" (0xC3 0xA9)
Short == {<<>>, <<0>>, <<98>>, <<195, 169>>}

\* strings x a^k y: lengths 0 .. MaxFill + 4, with zero bytes and two-byte
\* characters at either end
Inputs == {Str(x \o Fill(k) \o y, 0) : x \in Short, y \in Short, k \in 0..MaxFill}

\* inputs of the reference-counting runs: inline and heap-backed
RcInputs == {Str(Fill(n), 0) : n \in {MAX_INLINE, MAX_INLINE + 1}}

\* inputs whose length may exceed u32::MAX
LenInputs == {Str(Fill(n), b) : n \in {0, 4, MAX_INLINE, MAX_INLINE + 1}, b \in 0..MaxBlocks}

---------------------------------------------------------------------------
(* State *)

Idle == [op |-> "idle", src |-> 0, dst |-> 0, ptr |-> NullPtr]
NoRes == [op |-> "none", x |-> 0, y |-> 0, val |-> <<>>]
Result(op, x, y, val) == [op |-> op, x |-> x, y |-> y, val |-> val]

InitState ==
    /\ inst = [i \in Slots |-> NoInst]
    /\ content = [i \in Slots |-> NoStr]
    /\ heap = <<>>
    /\ pc = [t \in Threads |-> Idle]
    /\ stderr = 0
    /\ panicked = FALSE
    /\ res = NoRes

\* two strings to construct, compare and read
Init == args \in Inputs \X Inputs /\ InitState

\* no fixed arguments: every construction picks its input
InitRc == args = <<NoStr, NoStr>> /\ InitState

Live(i) == inst[i].state = "live"
\* a clone in progress holds a shared reference to its source
Borrowed(i) == \E t \in Threads : pc[t].op = "clone" /\ pc[t].src = i

---------------------------------------------------------------------------
(* Construction *)

\* UmbraArcString::new(val) into slot i
New(i, val) ==
    /\ ~panicked
    /\ inst[i].state = "unborn"
    /\ UsizeLeMaxInline(StrLen(val)) \/ Len(heap) < MaxBufs
    /\ stderr' = stderr + NewStderrLines(val)
    /\ IF NewPanics(val)
       THEN /\ panicked' = TRUE
            /\ UNCHANGED <<inst, content, heap>>
       ELSE /\ panicked' = FALSE
            /\ inst' = [inst EXCEPT ![i] = NewValue(heap, val)]
            /\ content' = [content EXCEPT ![i] = val]
            /\ heap' = NewHeap(heap, val)
    /\ UNCHANGED <<args, pc, res>>

\* let a = new(s1); let b = new(s2);
Construct(i) ==
    /\ i \in {1, 2}
    /\ i = 2 => Live(1)
    /\ New(i, args[i])

---------------------------------------------------------------------------
(* Observations: a == b, a.cmp(&b), &*a, a.len(), a.hash() *)

Observable == ~panicked /\ pc[MainThread] = Idle

DoEq ==
    /\ Observable /\ Live(1) /\ Live(2)
    /\ res' = Result("eq", 1, 2, eq(heap, inst[1], inst[2]))
    /\ UNCHANGED <<args, inst, content, heap, pc, stderr, panicked>>

DoCmp ==
    /\ Observable /\ Live(1) /\ Live(2)
    /\ res' = Result("cmp", 1, 2, cmp(heap, inst[1], inst[2]))
    /\ UNCHANGED <<args, inst, content, heap, pc, stderr, panicked>>

DoDeref(i) ==
    /\ Observable /\ Live(i)
    /\ res' = Result("deref", i, i, deref(heap, inst[i]))
    /\ UNCHANGED <<args, inst, content, heap, pc, stderr, panicked>>

DoLen(i) ==
    /\ Observable /\ Live(i)
    /\ res' = Result("len", i, i, len(inst[i]))
    /\ UNCHANGED <<args, inst, content, heap, pc, stderr, panicked>>

DoHash(i) ==
    /\ Observable /\ Live(i)
    /\ res' = Result("hash", i, i, hash(heap, inst[i]))
    /\ UNCHANGED <<args, inst, content, heap, pc, stderr, panicked>>

---------------------------------------------------------------------------
(* Clone *)

\* UmbraArcExtra::inner_data_clone
inner_data_clone(extra) == ExtraData(DataOf(extra))

\* a clone that copies the pointer and leaves the count alone
ArcCloneNoIncrement(h, p) == h
\* Arc::clone on the Arc rebuilt from the raw pointer: fetch_add(1) on strong
ArcClone(h, p) == [h EXCEPT ![p].strong = @ + 1]
\* the rebuilt Arc dropped at the end of inner_ptr_clone instead of forgotten
DropOldArc(h, p) == [h EXCEPT ![p].strong = @ - 1]
\* Arc::into_raw(old_arc): the rebuilt Arc is forgotten, the count stays
ForgetOldArc(h, p) == h

\* Clone::clone of an inline value: a copy of the record
CloneInline(t, i, j) ==
    /\ ~panicked /\ pc[t] = Idle
    /\ Live(i) /\ inst[j].state = "unborn"
    /\ is_inline(inst[i])
    /\ inst' = [inst EXCEPT
                  ![j] = Instance(inst[i].len, inst[i].prefix,
                                  inner_data_clone(inst[i].extra))]
    /\ content' = [content EXCEPT ![j] = content[i]]
    /\ UNCHANGED <<args, heap, pc, stderr, panicked, res>>

\* Clone::clone of a heap-backed value, up to the increment (lines 237-241)
CloneInc(t, i, j) ==
    /\ ~panicked /\ pc[t] = Idle
    /\ Live(i) /\ inst[j].state = "unborn"
    /\ ~is_inline(inst[i])
    /\ heap' = ArcClone(heap, PtrOf(inst[i].extra))
    /\ pc' = [pc EXCEPT ![t] = [op |-> "clone", src |-> i, dst |-> j,
                                ptr |-> PtrOf(inst[i].extra)]]
    /\ inst' = [inst EXCEPT ![j].state = "reserved"]
    /\ UNCHANGED <<args, content, stderr, panicked, res>>

\* ... and from there to the new record (lines 244-248 and 95-100)
CloneFinish(t) ==
    /\ ~panicked /\ pc[t].op = "clone"
    /\ heap' = ForgetOldArc(heap, pc[t].ptr)
    /\ inst' = [inst EXCEPT
                  ![pc[t].dst] = Instance(inst[pc[t].src].len, inst[pc[t].src].prefix,
                                          ExtraPtr(pc[t].ptr))]
    /\ content' = [content EXCEPT ![pc[t].dst] = content[pc[t].src]]
    /\ pc' = [pc EXCEPT ![t] = Idle]
    /\ UNCHANGED <<args, stderr, panicked, res>>

---------------------------------------------------------------------------
(* Drop *)

\* dropping the Arc rebuilt from the raw pointer: fetch_sub(1) on strong
ArcRelease(h, p) == [h EXCEPT ![p].strong = @ - 1]

\* the deallocation at the end of Arc::drop_slow, with the layout of the Arc's
\* type; a layout other than the allocation's is undefined behaviour, after
\* which the block is either released or the allocator's state is damaged
Dealloc(h, p, layout, damaged) ==
    [h EXCEPT ![p].frees = @ + 1,
              ![p].freedAs = layout,
              ![p].state = IF damaged THEN "corrupt" ELSE "freed"]

\* Drop::drop of an inline value: nothing
DropInline(t, i) ==
    /\ ~panicked /\ pc[t] = Idle
    /\ Live(i) /\ ~Borrowed(i)
    /\ is_inline(inst[i])
    /\ inst' = [inst EXCEPT ![i].state = "dropped"]
    /\ UNCHANGED <<args, content, heap, pc, stderr, panicked, res>>

\* Drop::drop of a heap-backed value, up to the decrement (inner_ptr_drop)
DropDec(t, i) ==
    /\ ~panicked /\ pc[t] = Idle
    /\ Live(i) /\ ~Borrowed(i)
    /\ ~is_inline(inst[i])
    /\ heap' = ArcRelease(heap, PtrOf(inst[i].extra))
    /\ inst' = [inst EXCEPT ![i].state = "dropped"]
    /\ pc' = [pc EXCEPT ![t] =
                IF heap[PtrOf(inst[i].extra)].strong = 1
                THEN [op |-> "drop_slow", src |-> i, dst |-> 0,
                      ptr |-> PtrOf(inst[i].extra)]
                ELSE Idle]
    /\ UNCHANGED <<args, content, stderr, panicked, res>>

\* ... and, when the count reached zero, Arc::<u8>::drop_slow frees the block
DropSlow(t) ==
    /\ ~panicked /\ pc[t].op = "drop_slow"
    /\ \E damaged \in BOOLEAN :
          /\ damaged => LayoutOfU8.size # heap[pc[t].ptr].allocAs.size
          /\ heap' = Dealloc(heap, pc[t].ptr, LayoutOfU8, damaged)
    /\ pc' = [pc EXCEPT ![t] = Idle]
    /\ UNCHANGED <<args, inst, content, stderr, panicked, res>>

---------------------------------------------------------------------------
(* Specifications *)

\* two values built from a pair of strings, observed and cloned by one thread
Next ==
    \/ \E i \in Slots : Construct(i)
    \/ DoEq
    \/ DoCmp
    \/ \E i \in {1, 2} : DoDeref(i)
    \/ \E i \in {1, 2} : DoLen(i)
    \/ \E i \in {1, 2} : DoHash(i)
    \/ CloneInline(MainThread, 1, 3)
    \/ CloneInc(MainThread, 1, 3)
    \/ CloneFinish(MainThread)

Spec == Init /\ [][Next]_vars

\* threads constructing, cloning, reading and dropping values that share buffers
NextRc ==
    \/ \E i \in Slots, v \in RcInputs : New(i, v)
    \/ \E t \in Threads, i, j \in Slots : CloneInline(t, i, j)
    \/ \E t \in Threads, i, j \in Slots : CloneInc(t, i, j)
    \/ \E t \in Threads : CloneFinish(t)
    \/ \E t \in Threads, i \in Slots : DropInline(t, i)
    \/ \E t \in Threads, i \in Slots : DropDec(t, i)
    \/ \E t \in Threads : DropSlow(t)
    \/ \E i \in Slots : DoDeref(i)

SpecRc == InitRc /\ [][NextRc]_vars

\* one thread constructing from strings of any length, cloning and dropping
NextLen ==
    \/ \E i \in Slots, v \in LenInputs : New(i, v)
    \/ \E i, j \in Slots : CloneInline(MainThread, i, j)
    \/ \E i, j \in Slots : CloneInc(MainThread, i, j)
    \/ CloneFinish(MainThread)
    \/ \E i \in Slots : DropInline(MainThread, i)
    \/ \E i \in Slots : DropDec(MainThread, i)
    \/ DropSlow(MainThread)

SpecLen == InitRc /\ [][NextLen]_vars

---------------------------------------------------------------------------
(* Properties *)

Bufs == 1..Len(heap)
HeapBacked(i) == Live(i) /\ ~is_inline(inst[i])
\* the live instances whose payload points at buffer b
Refs(b) == {i \in Slots : HeapBacked(i) /\ PtrOf(inst[i].extra) = b}
Cloning(b) == {t \in Threads : pc[t].op = "clone" /\ pc[t].ptr = b}
Releasing(b) == {t \in Threads : pc[t].op = "drop_slow" /\ pc[t].ptr = b}
Quiescent == \A t \in Threads : pc[t] = Idle
\* bytes padded with zero bytes to n
ZeroPad(s, n) == s \o Zeros(n - Len(s))

\* C1: a == b returns true exactly when the two strings the values were built
\* from are byte-for-byte identical
C1_EqIffSameContent ==
    res.op = "eq" => (res.val <=> content[1].bytes = content[2].bytes)

\* C2: a.cmp(&b) returns the byte-wise lexicographic order of the two strings
\* the values were built from
C2_CmpIsLexicographic ==
    res.op = "cmp" => res.val = SliceCmp(content[1].bytes, content[2].bytes)

\* C3: new(s) yields a value for every string s, whose view is s and whose
\* len() is the byte length of s
C3_RoundTrip ==
    /\ ~panicked
    /\ res.op = "deref" => res.val = args[res.x].bytes
    /\ res.op = "len" => res.val = Len(args[res.x].bytes)

\* C4: a shared buffer is freed at most once, only when no live instance and
\* no clone in progress refers to it, it has been freed once every instance
\* that referred to it is dropped, and a read through a live instance returns
\* the content of an unfreed buffer
C4_RefCountSound ==
    /\ \A b \in Bufs :
          /\ heap[b].frees <= 1
          /\ heap[b].frees = 1 => Refs(b) = {} /\ Cloning(b) = {}
          /\ (Refs(b) = {} /\ Cloning(b) = {} /\ Releasing(b) = {})
                => heap[b].frees = 1
    /\ \A i \in Slots :
          HeapBacked(i) => /\ PtrOf(inst[i].extra) \in Bufs
                           /\ heap[PtrOf(inst[i].extra)].frees = 0
    /\ (res.op = "deref" /\ Live(res.x)) => res.val = content[res.x].bytes

\* a buffer freed after an original and its clone were both dropped
C4_Witness ==
    \E b \in Bufs :
       /\ heap[b].frees = 1
       /\ Cardinality({i \in Slots : /\ inst[i].state = "dropped"
                                     /\ ~is_inline(inst[i])
                                     /\ PtrOf(inst[i].extra) = b}) >= 2

\* C5: when a == b returns true, both values feed the hasher the same bytes
C5_EqImpliesSameHash ==
    (res.op = "eq" /\ res.val) => hash(heap, inst[1]) = hash(heap, inst[2])

\* C6: for an input of any length, is_inline() holds of a live instance
\* exactly when its payload was written as inline bytes
C6_DiscriminantMatchesPayload ==
    \A i \in Slots :
       Live(i) => (is_inline(inst[i]) <=> inst[i].extra.written = "data")

\* C7: the prefix of every live instance is the first min(length, 4) bytes of
\* its content padded with zero bytes to 4, and the payload of an inline
\* instance is content bytes 4..length padded with zero bytes to 8
C7_PrefixInvariant ==
    \A i \in Slots :
       Live(i) =>
          /\ inst[i].prefix = ZeroPad(Take(content[i].bytes, 4), 4)
          /\ is_inline(inst[i]) =>
                /\ inst[i].extra.written = "data"
                /\ inst[i].extra.data = ZeroPad(Skip(content[i].bytes, 4), 8)

\* a short inline value, its clone, and a heap-backed value
C7_Witness ==
    /\ Live(1) /\ Live(2) /\ Live(3)
    /\ inst[3].len \in 1..3
    /\ ~is_inline(inst[2])

\* C8: under every interleaving of the clone and drop steps of several
\* threads, the count equals the number of live instances at every quiescent
\* point, no step of a clone lowers the count, and a buffer is not freed
\* twice nor while a live instance or a clone in progress refers to it
C8_CountMatchesWhenQuiescent ==
    \A b \in Bufs :
       /\ Quiescent => heap[b].strong = Cardinality(Refs(b))
       /\ heap[b].frees <= 1
       /\ heap[b].frees = 1 => Refs(b) = {} /\ Cloning(b) = {}

C8_CloneStepKeepsCount ==
    \A t \in Threads :
       ((pc[t].op = "clone" \/ pc'[t].op = "clone") /\ pc'[t] # pc[t])
          => LET b == IF pc[t].op = "clone" THEN pc[t].ptr ELSE pc'[t].ptr
             IN  heap'[b].strong >= heap[b].strong

C8_ConcurrentCloneDrop ==
    [](C8_CountMatchesWhenQuiescent) /\ [][C8_CloneStepKeepsCount]_vars

\* a thread between the increment and the end of a clone of a buffer of which
\* another instance has already been dropped
C8_Witness ==
    \E t \in Threads, b \in Bufs, i \in Slots :
       /\ pc[t].op = "clone" /\ pc[t].ptr = b
       /\ inst[i].state = "dropped" /\ ~is_inline(inst[i])
       /\ PtrOf(inst[i].extra) = b
       /\ heap[b].strong = 2

\* C9: new allocates one buffer when the input is longer than 12 bytes and
\* none otherwise, and writes nothing to stderr
C9_NewSideEffects ==
    /\ stderr = 0
    /\ Len(heap) = Cardinality({i \in {1, 2} : Live(i) /\ Len(content[i].bytes) > MAX_INLINE})

\* C10: a buffer is freed with the layout (type and size) it was allocated with
C10_FreedAsAllocated ==
    \A b \in Bufs : heap[b].frees >= 1 => heap[b].freedAs = heap[b].allocAs

====
